---- MODULE Spec2Model ----
(***************************************************************************)
(* Model of the VideoCanvas render engine (src/unnamed/part_000) driven by *)
(* the VideoStudio shell (src/unnamed/part_001): the frame loop            *)
(* (startAnimation / tick / drawFrame / cancelAnimation), the asset cache  *)
(* (loadImages) and the capture pipeline wired up in renderVideo           *)
(* (MediaRecorder ondataavailable / onerror / onstop).                     *)
(*                                                                         *)
(* Time is in integer milliseconds, scene durations and the configured     *)
(* duration are in seconds as in the source.  Progress values are exact    *)
(* rationals [n, d].  Scene indexes are 0-based as in the source.          *)
(***************************************************************************)
EXTENDS Integers, Sequences, FiniteSets, TLC

\* ------------------------------------------------------------------ bounds
MaxSessions == 2
MaxClockSteps == 2
MaxChunks == 1
MaxHandle == 3
MaxSceneSeconds == 2
MaxDrawScenes == 3
MaxCaptureChunks == 2
MaxSegmentSize == 2
MaxTextLen == 5
MaxWrapWidth == 4
MaxFadeSeconds == 3

\* ------------------------------------------------------- program constants
MsPerSecond == 1000
VIDEO_DURATION_SECONDS == 30

SCENES == <<6, 6, 6, 6, 6>>

Sessions == 1..MaxSessions
Handles == 1..MaxHandle
\* the clock is sampled once a second
ClockStepMs == MsPerSecond
MaxNow == MaxClockSteps * ClockStepMs

VARIABLES
  scenes,         \* prop scenes: the sequence of scene durations (seconds)
  duration,       \* prop duration (seconds)
  support,        \* MEDIA_RECORDER_SUPPORT
  ctxOk,          \* whether canvas.getContext('2d') yields a context
  codecs,         \* the codecs MediaRecorder.isTypeSupported accepts
  text,           \* the subtitle of the scenes, a sequence of characters
  maxWidth,       \* the width wrapText may fill, in measureText units
  canvasRef,      \* canvasRef.current is non-null
  animationRef,   \* animationRef.current, 0 = undefined
  imageCacheRef,  \* imageCacheRef.current is populated
  startTimeRef,   \* startTimeRef.current
  now,            \* performance.now()
  rafPending,     \* the host's pending animation-frame callbacks [h, s]
  surface,        \* what the canvas shows
  frame,          \* outcome of the latest drawFrame call
  sessions,       \* per renderVideo invocation: promise, recorder, stream
  status          \* last value passed to onStatusChange

vars == <<scenes, duration, support, ctxOk, codecs, text, maxWidth,
          canvasRef, animationRef,
          imageCacheRef, startTimeRef, now, rafPending, surface, frame,
          sessions, status>>

config == <<scenes, duration, support, ctxOk, codecs, text, maxWidth>>

\* --------------------------------------------------------------- rationals
Rat(n, d) == [n |-> n, d |-> d]
RatZero == Rat(0, 1)
RatOne == Rat(1, 1)
RatNone == Rat(-1, 1)
RatLeq(a, b) == a.n * b.d <= b.n * a.d
RatEq(a, b) == a.n * b.d = b.n * a.d
RatMax(a, b) == IF RatLeq(b, a) THEN a ELSE b
RatMin(a, b) == IF RatLeq(a, b) THEN a ELSE b
RatSub(a, b) == Rat(a.n * b.d - b.n * a.d, a.d * b.d)
\* a / b for b > 0
RatDiv(a, b) == Rat(a.n * b.d, a.d * b.n)

\* clamp with the upper bound forgotten
clampNoUpper(value, min, max) == RatMax(value, min)

\* const clamp = (value, min, max) => Math.min(Math.max(value, min), max)
clamp(value, min, max) == RatMin(RatMax(value, min), max)

RECURSIVE SumDurations(_)
SumDurations(scn) ==
  IF scn = <<>> THEN 0 ELSE Head(scn) + SumDurations(Tail(scn))

\* sum of the durations of the scenes before 0-based index i
RECURSIVE StartOf(_, _)
StartOf(scn, i) == IF i <= 0 THEN 0 ELSE scn[i] + StartOf(scn, i - 1)

\* -------------------------------------------------------------- wrapText
Chars == {"a", "b", " "}

SampleText == <<"a", " ", "b">>

\* context.measureText(str).width: every character is one unit wide
measureText(str) == Len(str)

\* text.split(' '): the pieces between the spaces, empty pieces included
RECURSIVE SplitLoop(_, _, _, _)
SplitLoop(str, i, piece, out) ==
  IF i > Len(str) THEN Append(out, piece)
  ELSE IF str[i] = " "
    THEN SplitLoop(str, i + 1, <<>>, Append(out, piece))
    ELSE SplitLoop(str, i + 1, Append(piece, str[i]), out)

split(str) == SplitLoop(str, 1, <<>>, <<>>)

RECURSIVE trimStart(_)
trimStart(str) ==
  IF str # <<>> /\ Head(str) = " " THEN trimStart(Tail(str)) ELSE str

RECURSIVE trimEnd(_)
trimEnd(str) ==
  IF str # <<>> /\ str[Len(str)] = " "
    THEN trimEnd(SubSeq(str, 1, Len(str) - 1))
    ELSE str

\* line.trim()
trim(str) == trimEnd(trimStart(str))

\* the loop of wrapText over words[n .. ] (n 0-based) and its final
\* fillText; out is the text of the fillText calls made so far
RECURSIVE WrapLoop(_, _, _, _, _)
WrapLoop(words, n, line, out, width) ==
  IF n >= Len(words) THEN Append(out, trim(line))
  ELSE LET testLine == line \o words[n + 1] \o <<" ">>
       IN  IF measureText(testLine) > width /\ n > 0
             THEN WrapLoop(words, n + 1, words[n + 1] \o <<" ">>,
                           Append(out, trim(line)), width)
             ELSE WrapLoop(words, n + 1, testLine, out, width)

\* the loop of wrapText without the fillText after it
RECURSIVE WrapLoopNoFlush(_, _, _, _, _)
WrapLoopNoFlush(words, n, line, out, width) ==
  IF n >= Len(words) THEN out
  ELSE LET testLine == line \o words[n + 1] \o <<" ">>
       IN  IF measureText(testLine) > width /\ n > 0
             THEN WrapLoopNoFlush(words, n + 1, words[n + 1] \o <<" ">>,
                                  Append(out, trim(line)), width)
             ELSE WrapLoopNoFlush(words, n + 1, testLine, out, width)

wrapTextNoFinalFlush(str, width) ==
  WrapLoopNoFlush(split(str), 0, <<>>, <<>>, width)

\* wrapText(context, text, x, y, maxWidth, lineHeight): the lines it fills,
\* top to bottom
wrapText(str, width) == WrapLoop(split(str), 0, <<>>, <<>>, width)

\* ------------------------------------------------------------- drawFrame
\* the for-loop of drawFrame: i is the 0-based loop index, acc is
\* `accumulated` (seconds); the comparison is made on elapsedMs / 1000
RECURSIVE ResolveLoop(_, _, _, _)
ResolveLoop(scn, elapsedMs, i, acc) ==
  IF i >= Len(scn)
    THEN [sceneIndex |-> Len(scn) - 1, accumulated |-> acc]
    ELSE IF elapsedMs >= acc * MsPerSecond
            /\ elapsedMs < (acc + scn[i + 1]) * MsPerSecond
           THEN [sceneIndex |-> i, accumulated |-> acc]
           ELSE ResolveLoop(scn, elapsedMs, i + 1, acc + scn[i + 1])

\* the loop with the lower bound of the window test made exclusive
RECURSIVE ResolveLoopExclusive(_, _, _, _)
ResolveLoopExclusive(scn, elapsedMs, i, acc) ==
  IF i >= Len(scn)
    THEN [sceneIndex |-> Len(scn) - 1, accumulated |-> acc]
    ELSE IF elapsedMs > acc * MsPerSecond
            /\ elapsedMs < (acc + scn[i + 1]) * MsPerSecond
           THEN [sceneIndex |-> i, accumulated |-> acc]
           ELSE ResolveLoopExclusive(scn, elapsedMs, i + 1, acc + scn[i + 1])

ResolveSceneExclusive(scn, elapsedMs) ==
  ResolveLoopExclusive(scn, elapsedMs, 0, 0)

\* let accumulated = 0; let sceneIndex = scenes.length - 1; for (...) {...}
ResolveScene(scn, elapsedMs) == ResolveLoop(scn, elapsedMs, 0, 0)

\* const fadeWindow = Math.min(0.75, scene.duration / 3), in seconds
fadeWindow(d) == RatMin(Rat(3, 4), Rat(d, 3))

\* scene-local time in seconds, from milliseconds
Seconds(ms) == Rat(ms, MsPerSecond)

\* const fadeIn = clamp(sceneElapsed / fadeWindow, 0, 1)
fadeIn(d, sceneElapsedMs) ==
  clamp(RatDiv(Seconds(sceneElapsedMs), fadeWindow(d)), RatZero, RatOne)

\* const fadeOut = clamp((scene.duration - sceneElapsed) / fadeWindow, 0, 1)
fadeOut(d, sceneElapsedMs) ==
  clamp(RatDiv(RatSub(Rat(d, 1), Seconds(sceneElapsedMs)), fadeWindow(d)),
        RatZero, RatOne)

\* an opacity that only fades in
textOpacityFadeInOnly(d, sceneElapsedMs) == fadeIn(d, sceneElapsedMs)

\* const textOpacity = Math.min(fadeIn, fadeOut)
textOpacity(d, sceneElapsedMs) ==
  RatMin(fadeIn(d, sceneElapsedMs), fadeOut(d, sceneElapsedMs))

NoFrame ==
  [s |-> 0, called |-> FALSE, elapsedMs |-> 0, progress |-> RatNone,
   complete |-> FALSE, drew |-> FALSE, threw |-> FALSE,
   sceneIndex |-> -1, sceneElapsedMs |-> 0, lines |-> <<>>,
   textOpacity |-> RatNone]

\* drawFrame with the completion test made strict (elapsedMs > total)
DrawFrameStrict(scn, dur, elapsedMs) ==
  LET totalDurationMs == dur * MsPerSecond
      p == clamp(Rat(elapsedMs, totalDurationMs), RatZero, RatOne)
      r == ResolveScene(scn, elapsedMs)
  IN  IF elapsedMs > totalDurationMs
        THEN [s |-> 0, called |-> TRUE, elapsedMs |-> elapsedMs,
              progress |-> p, complete |-> TRUE, drew |-> FALSE,
              threw |-> FALSE, sceneIndex |-> -1, sceneElapsedMs |-> 0,
              lines |-> <<>>,
              textOpacity |-> RatNone]
        ELSE IF r.sceneIndex < 0
          THEN [s |-> 0, called |-> TRUE, elapsedMs |-> elapsedMs,
                progress |-> p, complete |-> FALSE, drew |-> FALSE,
                threw |-> TRUE, sceneIndex |-> -1, sceneElapsedMs |-> 0,
                lines |-> <<>>,
                textOpacity |-> RatNone]
          ELSE [s |-> 0, called |-> TRUE, elapsedMs |-> elapsedMs,
                progress |-> p, complete |-> FALSE, drew |-> TRUE,
                threw |-> FALSE, sceneIndex |-> r.sceneIndex,
                sceneElapsedMs |-> elapsedMs - r.accumulated * MsPerSecond,
                lines |-> wrapText(text, maxWidth),
                textOpacity |->
                  textOpacity(scn[r.sceneIndex + 1],
                              elapsedMs - r.accumulated * MsPerSecond)]

\* drawFrame(ctx, images, elapsedMs, {onComplete}): what it reports and draws
\* (s, the session whose tick made the call, is filled in by Tick)
DrawFrame(scn, dur, elapsedMs) ==
  LET totalDurationMs == dur * MsPerSecond
      p == clamp(Rat(elapsedMs, totalDurationMs), RatZero, RatOne)
      r == ResolveScene(scn, elapsedMs)
  IN  IF elapsedMs >= totalDurationMs
        THEN [s |-> 0, called |-> TRUE, elapsedMs |-> elapsedMs, progress |-> p,
              complete |-> TRUE, drew |-> FALSE, threw |-> FALSE,
              sceneIndex |-> -1, sceneElapsedMs |-> 0, lines |-> <<>>,
              textOpacity |-> RatNone]
        ELSE IF r.sceneIndex < 0
          \* scenes[-1] is undefined: reading scene.duration throws
          \* after ctx.clearRect
          THEN [s |-> 0, called |-> TRUE, elapsedMs |-> elapsedMs, progress |-> p,
                complete |-> FALSE, drew |-> FALSE, threw |-> TRUE,
                sceneIndex |-> -1, sceneElapsedMs |-> 0, lines |-> <<>>,
                textOpacity |-> RatNone]
          ELSE [s |-> 0, called |-> TRUE, elapsedMs |-> elapsedMs, progress |-> p,
                complete |-> FALSE, drew |-> TRUE, threw |-> FALSE,
                sceneIndex |-> r.sceneIndex,
                sceneElapsedMs |-> elapsedMs - r.accumulated * MsPerSecond,
                lines |-> wrapText(text, maxWidth),
                textOpacity |->
                  textOpacity(scn[r.sceneIndex + 1],
                              elapsedMs - r.accumulated * MsPerSecond)]

Blank == [sceneIndex |-> -1, sceneElapsedMs |-> 0]

SurfaceAfter(f, old) ==
  IF f.drew THEN [sceneIndex |-> f.sceneIndex,
                  sceneElapsedMs |-> f.sceneElapsedMs]
  ELSE IF f.threw THEN Blank
  ELSE old

\* ------------------------------------------------------ frame scheduling
\* cancelAnimation: cancels the request animationRef names, clears the ref
CancelAnimation(aref, pend) ==
  [animationRef |-> 0,
   rafPending |-> IF aref # 0 THEN {r \in pend : r.h # aref} ELSE pend]

\* requestAnimationFrame hands out a handle no one holds
FreshHandle(aref, pend) ==
  CHOOSE h \in Handles : h # aref /\ \A r \in pend : r.h # h

RequestFrame(aref, pend, s) ==
  LET h == FreshHandle(aref, pend)
  IN  [animationRef |-> h, rafPending |-> pend \cup {[h |-> h, s |-> s]}]

\* --------------------------------------------------------------- capture
Codecs == {"vp9", "vp8", "h264"}

\* buildMimeType(): the first supported of vp9, vp8, h264, else plain webm
buildMimeType(sup, supported) ==
  IF ~sup THEN "video/webm"
  ELSE IF "vp9" \in supported THEN "video/webm;codecs=vp9"
  ELSE IF "vp8" \in supported THEN "video/webm;codecs=vp8"
  ELSE IF "h264" \in supported THEN "video/webm;codecs=h264"
  ELSE "video/webm"

\* a handler that pushes every segment, empty or not
PushChunkAlways(chunks, size) == Append(chunks, size)

\* if (event.data && event.data.size > 0) chunks.push(event.data)
PushChunk(chunks, size) == IF size > 0 THEN Append(chunks, size) ELSE chunks

\* the recorder's own record of the non-empty segments it handed over
Arrived(log, size) == IF size = 0 THEN log ELSE log \o <<size>>

\* -------------------------------------------------------------- sessions
\* history counters saturate: 0, 1, 2 = twice or more
Cap(n) == IF n < 2 THEN n + 1 ELSE n

\* one renderVideo invocation: pc is the state of the returned promise
\* ("loading" and "recording" are pending), rec the MediaRecorder state,
\* stopEvt a queued stop event, tracks the capture stream's tracks, chunks
\* the segments pushed so far, result and resultMime the blob and mime type
\* it resolved with, mime the value of buildMimeType(), delivered the
\* non-empty segments the recorder has handed over; the rest counts what
\* the invocation did and emitted
NewSession ==
  [pc |-> "new", errMsg |-> "none", errImage |-> 0, rec |-> "none",
   stopEvt |-> FALSE,
   tracks |-> "none", mime |-> "none", delivered |-> <<>>,
   chunks |-> <<>>, result |-> <<>>, resultMime |-> "none",
   stopCalls |-> 0, badStop |-> FALSE, trackStops |-> 0,
   completeTicks |-> 0, onErrorCount |-> 0, errStatusCount |-> 0,
   lastStatus |-> "none", lastProgress |-> RatNone]

InFlight(s) == sessions[s].pc \in {"loading", "recording"}

\* ------------------------------------------------------------------ Init
SessionConfigs ==
  { [scenes |-> <<1>>, duration |-> 1] }

InitEngine ==
  /\ canvasRef = TRUE
  /\ animationRef = 0
  /\ imageCacheRef = FALSE
  /\ startTimeRef = 0
  /\ rafPending = {}
  /\ surface = Blank
  /\ frame = NoFrame
  /\ sessions = [s \in Sessions |-> NewSession]
  /\ status = "idle"

Init ==
  /\ \E c \in SessionConfigs : scenes = c.scenes /\ duration = c.duration
  /\ support \in BOOLEAN
  /\ ctxOk \in BOOLEAN
  /\ codecs = Codecs
  /\ text = SampleText
  /\ maxWidth = MaxWrapWidth
  /\ now = 0
  /\ InitEngine

\* ------------------------------------------------------------ renderVideo
\* the catch block of renderVideo: notifyStatus('error'), onError(message),
\* rethrow (the returned promise rejects)
Caught(r, msg) ==
  [r EXCEPT !.pc = "rejected", !.errMsg = msg, !.lastStatus = "error",
            !.onErrorCount = Cap(@), !.errStatusCount = Cap(@)]

\* a throw before the try block: the returned promise rejects, nothing else
Thrown(r, msg) == [r EXCEPT !.pc = "rejected", !.errMsg = msg]

\* renderVideo after `await loadImages()`: context, stream, recorder,
\* mediaRecorder.start(), startAnimation (cancelAnimation, clock start,
\* notifyProgress(0), notifyStatus('rendering'), first frame request)
StartRender(s) ==
  IF ~canvasRef \/ ~ctxOk
    THEN /\ sessions' = [sessions EXCEPT ![s] =
              Caught(@, IF ~canvasRef THEN "typeerror" ELSE "context")]
         /\ status' = "error"
         /\ UNCHANGED <<animationRef, rafPending, startTimeRef>>
    ELSE LET c == CancelAnimation(animationRef, rafPending)
             q == RequestFrame(c.animationRef, c.rafPending, s)
         IN  /\ animationRef' = q.animationRef
             /\ rafPending' = q.rafPending
             /\ startTimeRef' = now
             /\ status' = "rendering"
             /\ sessions' = [sessions EXCEPT ![s] =
                  [@ EXCEPT !.pc = "recording", !.rec = "recording",
                            !.tracks = "live", !.lastStatus = "rendering",
                            !.mime = buildMimeType(support, codecs),
                            !.lastProgress = RatZero]]

\* the handle's renderVideo(), up to its first suspension
RenderVideo(s) ==
  /\ sessions[s].pc = "new"
  /\ \A t \in Sessions : t < s => sessions[t].pc # "new"
  /\ IF ~canvasRef \/ ~support
       THEN /\ sessions' = [sessions EXCEPT ![s] =
                 Thrown(@, IF ~canvasRef THEN "canvas-not-ready"
                                         ELSE "unsupported")]
            /\ UNCHANGED <<animationRef, rafPending, startTimeRef, status>>
       ELSE IF imageCacheRef
         THEN StartRender(s)
         ELSE /\ sessions' = [sessions EXCEPT
                   ![s].pc = "loading", ![s].lastStatus = "loading-assets"]
              /\ status' = "loading-assets"
              /\ UNCHANGED <<animationRef, rafPending, startTimeRef>>
  /\ UNCHANGED <<config, canvasRef, imageCacheRef, now, surface, frame>>

\* loadImages: every img.onload fired, Promise.all resolves, cache is set
LoadDone(s) ==
  /\ sessions[s].pc = "loading"
  /\ imageCacheRef' = TRUE
  /\ StartRender(s)
  /\ UNCHANGED <<config, canvasRef, now, surface, frame>>

\* a failed load that leaves the images decoded so far in the cache
LoadFailKeepsPartial(s, i) ==
  /\ sessions[s].pc = "loading"
  /\ i \in 1..Len(scenes)
  /\ sessions' = [sessions EXCEPT ![s] =
                    [Caught(@, "image") EXCEPT !.errImage = i]]
  /\ status' = "error"
  /\ imageCacheRef' = TRUE
  /\ UNCHANGED <<config, canvasRef, animationRef,
                 startTimeRef, now, rafPending, surface, frame>>

\* loadImages: the img.onerror of scene i (1-based) fired first, Promise.all
\* rejects with `Failed to load image ${scene.image}`, renderVideo catches
LoadFail(s, i) ==
  /\ sessions[s].pc = "loading"
  /\ i \in 1..Len(scenes)
  /\ sessions' = [sessions EXCEPT ![s] =
                    [Caught(@, "image") EXCEPT !.errImage = i]]
  /\ status' = "error"
  /\ UNCHANGED <<config, canvasRef, animationRef, imageCacheRef,
                 startTimeRef, now, rafPending, surface, frame>>

\* --------------------------------------------------------- frame callback
ShouldStopAlways(recState) == TRUE

\* the completion callback renderVideo hands to startAnimation:
\* if (mediaRecorder.state !== 'inactive') mediaRecorder.stop()
ShouldStop(recState) == recState # "inactive"

\* a stop() that runs the onstop handler before it returns
StopRecorderAndFinalize(r, requested) ==
  IF requested
    THEN [r EXCEPT !.rec = "inactive", !.stopEvt = FALSE,
                   !.stopCalls = Cap(@),
                   !.badStop = @ \/ (r.rec # "recording"),
                   !.tracks = "ended", !.trackStops = Cap(@),
                   !.pc = IF @ = "recording" THEN "resolved" ELSE @,
                   !.result = IF r.pc = "recording" THEN r.chunks ELSE @,
                   !.resultMime = IF r.pc = "recording" THEN r.mime ELSE @]
    ELSE r

\* mediaRecorder.stop(): the recorder turns inactive at once and the final
\* dataavailable and stop events are queued
StopRecorder(r, requested) ==
  IF requested
    THEN [r EXCEPT !.rec = "inactive", !.stopEvt = TRUE,
                   !.stopCalls = Cap(@),
                   !.badStop = @ \/ (r.rec # "recording")]
    ELSE r

\* one run of tick(): a pending frame callback r = [h, s] fires
Tick(r) ==
  /\ r \in rafPending
  /\ LET s == r.s
         pend0 == rafPending \ {r}
         f == [DrawFrame(scenes, duration, now - startTimeRef)
                 EXCEPT !.s = s]
         stopReq == f.complete /\ ShouldStop(sessions[s].rec)
         c == IF f.complete
                THEN CancelAnimation(animationRef, pend0)
                ELSE [animationRef |-> animationRef, rafPending |-> pend0]
         q == IF f.threw
                THEN c
                ELSE RequestFrame(c.animationRef, c.rafPending, s)
     IN  IF ~canvasRef
           THEN /\ rafPending' = pend0
                /\ UNCHANGED <<animationRef, surface, frame, sessions,
                               status>>
           ELSE /\ animationRef' = q.animationRef
                /\ rafPending' = q.rafPending
                /\ frame' = f
                /\ surface' = SurfaceAfter(f, surface)
                /\ status' = IF f.complete THEN "complete" ELSE status
                /\ sessions' = [sessions EXCEPT ![s] =
                     [StopRecorder(@, stopReq) EXCEPT
                        !.lastProgress =
                           IF f.complete THEN RatOne ELSE f.progress,
                        !.lastStatus = IF f.complete THEN "complete" ELSE @,
                        !.completeTicks = IF f.complete THEN Cap(@) ELSE @]]
  /\ UNCHANGED <<config, canvasRef, imageCacheRef, startTimeRef, now>>

\* performance.now() moves on; the clock is only ever read as
\* now - startTimeRef by a tick, so it is left alone while no frame
\* callback is pending
AdvanceClock ==
  /\ rafPending # {}
  /\ now < MaxNow
  /\ now' = now + ClockStepMs
  /\ UNCHANGED <<config, canvasRef, animationRef, imageCacheRef,
                 startTimeRef, rafPending, surface, frame, sessions, status>>

\* ------------------------------------------------------ recorder events
\* stream.getTracks().forEach((track) => track.stop())
ReleaseTracks(r) == [r EXCEPT !.tracks = "ended", !.trackStops = Cap(@)]

\* number of segments pushed so far, over the sessions in S
RECURSIVE ChunkCount(_)
ChunkCount(S) ==
  IF S = {} THEN 0
  ELSE LET s == CHOOSE x \in S : TRUE
       IN  Len(sessions[s].chunks) + ChunkCount(S \ {s})

\* mediaRecorder.ondataavailable with a segment of the given size
DataAvailable(s, size) ==
  /\ sessions[s].rec = "recording" \/ sessions[s].stopEvt
  /\ sessions' = [sessions EXCEPT
                    ![s].delivered = Arrived(@, size),
                    ![s].chunks = PushChunk(@, size)]
  /\ UNCHANGED <<config, canvasRef, animationRef, imageCacheRef,
                 startTimeRef, now, rafPending, surface, frame, status>>

\* an onerror handler that forgets cancelAnimation()
EncoderErrorKeepsLoop(s) ==
  /\ sessions[s].rec = "recording"
  /\ LET r1 == [ReleaseTracks(sessions[s]) EXCEPT
                  !.rec = "inactive", !.stopEvt = TRUE,
                  !.lastStatus = "error",
                  !.onErrorCount = Cap(@), !.errStatusCount = Cap(@)]
     IN  /\ status' = "error"
         /\ sessions' = [sessions EXCEPT ![s] =
              IF sessions[s].pc = "recording"
                THEN Caught(r1, "recorder") ELSE r1]
  /\ UNCHANGED <<config, canvasRef, animationRef, imageCacheRef,
                 startTimeRef, now, rafPending, surface, frame>>

\* an onerror handler that notifies but leaves the promise pending
EncoderErrorNoReject(s) ==
  /\ sessions[s].rec = "recording"
  /\ LET c == CancelAnimation(animationRef, rafPending)
     IN  /\ animationRef' = c.animationRef
         /\ rafPending' = c.rafPending
         /\ status' = "error"
         /\ sessions' = [sessions EXCEPT ![s] =
              [ReleaseTracks(@) EXCEPT
                 !.rec = "inactive", !.stopEvt = TRUE,
                 !.errMsg = "recorder", !.lastStatus = "error",
                 !.onErrorCount = Cap(@), !.errStatusCount = Cap(@)]]
  /\ UNCHANGED <<config, canvasRef, imageCacheRef, startTimeRef, now,
                 surface, frame>>

\* mediaRecorder.onerror, then the catch block the rejected resultPromise
\* wakes up; the recorder turns inactive and its stop event is queued
EncoderError(s) ==
  /\ sessions[s].rec = "recording"
  /\ LET c == CancelAnimation(animationRef, rafPending)
         r1 == [ReleaseTracks(sessions[s]) EXCEPT
                  !.rec = "inactive", !.stopEvt = TRUE,
                  !.lastStatus = "error",
                  !.onErrorCount = Cap(@), !.errStatusCount = Cap(@)]
     IN  /\ animationRef' = c.animationRef
         /\ rafPending' = c.rafPending
         /\ status' = "error"
         /\ sessions' = [sessions EXCEPT ![s] =
              IF sessions[s].pc = "recording"
                THEN Caught(r1, "recorder") ELSE r1]
  /\ UNCHANGED <<config, canvasRef, imageCacheRef, startTimeRef, now,
                 surface, frame>>

\* mediaRecorder.onstop: release the tracks, resolve with the blob
OnStop(s) ==
  /\ sessions[s].stopEvt
  /\ sessions' = [sessions EXCEPT ![s] =
       [ReleaseTracks(@) EXCEPT
          !.stopEvt = FALSE,
          !.pc = IF @ = "recording" THEN "resolved" ELSE @,
          !.result = IF sessions[s].pc = "recording"
                       THEN sessions[s].chunks ELSE @,
          !.resultMime = IF sessions[s].pc = "recording"
                           THEN sessions[s].mime ELSE @]]
  /\ UNCHANGED <<config, canvasRef, animationRef, imageCacheRef,
                 startTimeRef, now, rafPending, surface, frame, status>>

\* --------------------------------------------------------- effect, resize
\* the effect's cleanup on unmount: the canvas ref is cleared, the resize
\* listener removed, cancelAnimation() called
Unmount ==
  /\ canvasRef
  /\ canvasRef' = FALSE
  /\ LET c == CancelAnimation(animationRef, rafPending)
     IN  /\ animationRef' = c.animationRef
         /\ rafPending' = c.rafPending
  /\ UNCHANGED <<config, imageCacheRef, startTimeRef, now, surface, frame,
                 sessions, status>>

\* window 'resize' -> ensureCanvas: assigning canvas.width clears the canvas
Resize ==
  /\ canvasRef
  /\ surface # Blank
  /\ surface' = Blank
  /\ UNCHANGED <<config, canvasRef, animationRef, imageCacheRef,
                 startTimeRef, now, rafPending, frame, sessions, status>>

\* ------------------------------------------------------------------ Next
Next ==
  \/ \E s \in Sessions : RenderVideo(s)
  \/ \E s \in Sessions : LoadDone(s)
  \/ \E s \in Sessions, i \in 1..Len(scenes) : LoadFail(s, i)
  \/ \E r \in rafPending : Tick(r)
  \/ AdvanceClock
  \/ \E s \in Sessions, size \in 0..1 :
       ChunkCount(Sessions) < MaxChunks /\ DataAvailable(s, size)
  \/ \E s \in Sessions : EncoderError(s)
  \/ \E s \in Sessions : OnStop(s)
  \/ Unmount
  \/ Resize

Spec == Init /\ [][Next]_vars

TypeOK ==
  /\ animationRef \in 0..MaxHandle
  /\ Cardinality(rafPending) <= 1
  /\ \A r \in rafPending : r.h = animationRef
  /\ startTimeRef <= now

\* --------------------------------------------- one frame, any timeline
\* scene lists: every list of up to MaxDrawScenes durations of
\* 1..MaxSceneSeconds seconds, the empty list, and the studio's SCENES
RECURSIVE SeqsUpTo(_, _)
SeqsUpTo(S, n) ==
  IF n = 0 THEN {<<>>}
  ELSE LET shorter == SeqsUpTo(S, n - 1)
       IN  shorter \cup {Append(q, x) : q \in shorter, x \in S}

DrawSceneLists == SeqsUpTo(1..MaxSceneSeconds, MaxDrawScenes) \cup {SCENES}

DrawDurations ==
  (1..(MaxDrawScenes * MaxSceneSeconds)) \cup {VIDEO_DURATION_SECONDS}

\* elapsed times: every whole second up to just past the longest timeline,
\* and the last millisecond before each
DrawElapsed ==
  {b * MsPerSecond + d : b \in 0..(VIDEO_DURATION_SECONDS + 1),
                         d \in {0, MsPerSecond - 1}}

\* a render that has just started (StartRender at time 0, images cached),
\* seen startTimeRef + t later
InitDraw ==
  /\ scenes \in DrawSceneLists
  /\ duration \in DrawDurations
  /\ support = TRUE
  /\ ctxOk = TRUE
  /\ codecs = Codecs
  /\ text = SampleText
  /\ maxWidth = MaxWrapWidth
  /\ canvasRef = TRUE
  /\ animationRef = 1
  /\ imageCacheRef = TRUE
  /\ startTimeRef = 0
  /\ now \in DrawElapsed
  /\ rafPending = {[h |-> 1, s |-> 1]}
  /\ surface = Blank
  /\ frame = NoFrame
  /\ sessions = [s \in Sessions |->
       IF s = 1
         THEN [NewSession EXCEPT !.pc = "recording", !.rec = "recording",
                                 !.tracks = "live",
                                 !.mime = buildMimeType(support, codecs),
                                 !.lastStatus = "rendering",
                                 !.lastProgress = RatZero]
         ELSE NewSession]
  /\ status = "rendering"

\* its first frame callback
NextDraw == \E r \in rafPending : ~frame.called /\ Tick(r)

SpecDraw == InitDraw /\ [][NextDraw]_vars

\* ------------------------------------------ whole renders, any timeline
\* props a caller may pass: no scene or one scene of 1..MaxSceneSeconds
\* seconds, and a configured duration of 1..MaxSceneSeconds seconds
ConfigSceneLists == SeqsUpTo(1..MaxSceneSeconds, 1)

ConfigDurations == 1..MaxSceneSeconds

InitConfigs ==
  /\ scenes \in ConfigSceneLists
  /\ duration \in ConfigDurations
  /\ support \in BOOLEAN
  /\ ctxOk \in BOOLEAN
  /\ codecs = Codecs
  /\ text = SampleText
  /\ maxWidth = MaxWrapWidth
  /\ now = 0
  /\ InitEngine

SpecConfigs == InitConfigs /\ [][Next]_vars

\* ------------------------------------------ one render, any segments
\* one renderVideo from a fresh engine, under every codec support, with
\* up to MaxCaptureChunks segments of 0..MaxSegmentSize bytes
FirstSession == CHOOSE s \in Sessions : \A t \in Sessions : s <= t

InitCapture ==
  /\ \E c \in SessionConfigs : scenes = c.scenes /\ duration = c.duration
  /\ support = TRUE
  /\ ctxOk = TRUE
  /\ codecs \in SUBSET Codecs
  /\ text = SampleText
  /\ maxWidth = MaxWrapWidth
  /\ now = 0
  /\ InitEngine

NextCapture ==
  \/ RenderVideo(FirstSession)
  \/ LoadDone(FirstSession)
  \/ \E r \in rafPending : Tick(r)
  \/ AdvanceClock
  \/ \E size \in 0..MaxSegmentSize :
       ChunkCount(Sessions) < MaxCaptureChunks
         /\ DataAvailable(FirstSession, size)
  \/ EncoderError(FirstSession)
  \/ OnStop(FirstSession)

SpecCapture == InitCapture /\ [][NextCapture]_vars

\* ------------------------------------------------ one frame, any subtitle
\* subtitles: every string of up to MaxTextLen characters of Chars, wrapped
\* to every width of 1..MaxWrapWidth
WrapTexts == SeqsUpTo(Chars, MaxTextLen)

WrapWidths == 1..MaxWrapWidth

\* a render that has just started, about to draw its first frame
InitWrap ==
  /\ \E c \in SessionConfigs : scenes = c.scenes /\ duration = c.duration
  /\ support = TRUE
  /\ ctxOk = TRUE
  /\ codecs = Codecs
  /\ text \in WrapTexts
  /\ maxWidth \in WrapWidths
  /\ canvasRef = TRUE
  /\ animationRef = 1
  /\ imageCacheRef = TRUE
  /\ startTimeRef = 0
  /\ now = 0
  /\ rafPending = {[h |-> 1, s |-> 1]}
  /\ surface = Blank
  /\ frame = NoFrame
  /\ sessions = [s \in Sessions |->
       IF s = 1
         THEN [NewSession EXCEPT !.pc = "recording", !.rec = "recording",
                                 !.tracks = "live",
                                 !.mime = buildMimeType(support, codecs),
                                 !.lastStatus = "rendering",
                                 !.lastProgress = RatZero]
         ELSE NewSession]
  /\ status = "rendering"

SpecWrap == InitWrap /\ [][NextDraw]_vars

\* ------------------------------------------- one frame, any fade position
\* one scene of 1..MaxFadeSeconds seconds (fade windows d/3 and 0.75 s) under
\* a configured duration long enough for drawFrame to run past the scene's
\* end, drawn at every millisecond
FadeSceneLists == {<<d>> : d \in 1..MaxFadeSeconds}

FadeDuration == 2 * MaxFadeSeconds + 1

FadeElapsed == 0..(FadeDuration * MsPerSecond)

\* a render that has just started, seen startTimeRef + t later
InitFade ==
  /\ scenes \in FadeSceneLists
  /\ duration = FadeDuration
  /\ support = TRUE
  /\ ctxOk = TRUE
  /\ codecs = Codecs
  /\ text = SampleText
  /\ maxWidth = MaxWrapWidth
  /\ canvasRef = TRUE
  /\ animationRef = 1
  /\ imageCacheRef = TRUE
  /\ startTimeRef = 0
  /\ now \in FadeElapsed
  /\ rafPending = {[h |-> 1, s |-> 1]}
  /\ surface = Blank
  /\ frame = NoFrame
  /\ sessions = [s \in Sessions |->
       IF s = 1
         THEN [NewSession EXCEPT !.pc = "recording", !.rec = "recording",
                                 !.tracks = "live",
                                 !.mime = buildMimeType(support, codecs),
                                 !.lastStatus = "rendering",
                                 !.lastProgress = RatZero]
         ELSE NewSession]
  /\ status = "rendering"

SpecFade == InitFade /\ [][NextDraw]_vars

\* ------------------------------------- renders that nothing interrupts
\* performance.now() keeps moving while a frame callback is pending; the
\* clock is only ever read as now - startTimeRef, so it stops once that
\* difference has reached the configured duration
AdvanceClockLive ==
  /\ rafPending # {}
  /\ now - startTimeRef < duration * MsPerSecond
  /\ now' = now + ClockStepMs
  /\ UNCHANGED <<config, canvasRef, animationRef, imageCacheRef,
                 startTimeRef, rafPending, surface, frame, sessions, status>>

\* a mounted component in a browser with MediaRecorder and a 2d context
InitLive ==
  /\ \E c \in SessionConfigs : scenes = c.scenes /\ duration = c.duration
  /\ support = TRUE
  /\ ctxOk = TRUE
  /\ codecs = Codecs
  /\ text = SampleText
  /\ maxWidth = MaxWrapWidth
  /\ now = 0
  /\ InitEngine

\* every image decodes, the encoder raises no error, nothing unmounts
NextLive ==
  \/ \E s \in Sessions : RenderVideo(s)
  \/ \E s \in Sessions : LoadDone(s)
  \/ \E r \in rafPending : Tick(r)
  \/ AdvanceClockLive
  \/ \E s \in Sessions, size \in 0..1 :
       ChunkCount(Sessions) < MaxChunks /\ DataAvailable(s, size)
  \/ \E s \in Sessions : OnStop(s)
  \/ Resize

\* the host delivers every image load, every pending frame callback and
\* every queued stop event, and the clock keeps advancing
Fairness ==
  /\ \A s \in Sessions : WF_vars(LoadDone(s))
  /\ WF_vars(\E r \in rafPending : Tick(r))
  /\ WF_vars(AdvanceClockLive)
  /\ \A s \in Sessions : WF_vars(OnStop(s))

SpecLive == InitLive /\ [][NextLive]_vars /\ Fairness

\* ================================================================ claims
ErroredByRecorder(s) == sessions[s].errMsg = "recorder"

Recording(s) == sessions[s].rec = "recording"

\* window of 0-based scene i of scn contains t (milliseconds)
InWindow(scn, i, t) ==
  /\ StartOf(scn, i) * MsPerSecond <= t
  /\ t < (StartOf(scn, i) + scn[i + 1]) * MsPerSecond

\* C1: once a tick of a session has observed elapsed >= total duration, no
\* frame callback of that session is pending any more, and exactly one
\* tick of the session signals completion.
C1_NoFrameAfterCompletion ==
  \A s \in Sessions :
    sessions[s].completeTicks >= 1 =>
      /\ \A r \in rafPending : r.s # s
      /\ sessions[s].completeTicks = 1

\* C2: a renderVideo invoked while an earlier one is in flight is rejected,
\* and at no time are two recorders in the recording state.
C2_SecondRenderRejected ==
  /\ \A s1, s2 \in Sessions :
       (s1 < s2 /\ InFlight(s1)) => sessions[s2].pc \in {"new", "rejected"}
  /\ Cardinality({s \in Sessions : Recording(s)}) <= 1

\* C3: a session whose recorder raised an error ends with its tracks
\* released exactly once, last status 'error', the promise rejected and no
\* artifact, whatever the recorder signals afterwards.
C3_EncoderErrorOutcome ==
  \A s \in Sessions :
    ErroredByRecorder(s) =>
      /\ sessions[s].trackStops = 1
      /\ sessions[s].tracks = "ended"
      /\ sessions[s].lastStatus = "error"
      /\ sessions[s].pc = "rejected"
      /\ sessions[s].result = <<>>

\* C4: for positive scene durations and 0 <= t < sum of the durations, the
\* resolver loop selects the one scene whose window [start, start + d)
\* contains t, and a frame drawn at such a t shows that scene with
\* scene-local elapsed t - start in [0, d); with SCENES, t = 6000 ms gives
\* index 1 at local 0 and t = 29999 ms gives index 4 at local 5999 ms.
C4_ResolverSelectsContainingScene ==
  LET t == now - startTimeRef
      r == ResolveScene(scenes, t)
      n == Len(scenes)
  IN  /\ t < SumDurations(scenes) * MsPerSecond =>
           /\ r.sceneIndex \in 0..(n - 1)
           /\ InWindow(scenes, r.sceneIndex, t)
           /\ \A j \in 0..(n - 1) : InWindow(scenes, j, t) => j = r.sceneIndex
           /\ r.accumulated = StartOf(scenes, r.sceneIndex)
      /\ (frame.called /\ ~frame.complete
          /\ frame.elapsedMs < SumDurations(scenes) * MsPerSecond) =>
           /\ frame.drew
           /\ frame.sceneIndex \in 0..(n - 1)
           /\ InWindow(scenes, frame.sceneIndex, frame.elapsedMs)
           /\ frame.sceneElapsedMs =
                frame.elapsedMs
                  - StartOf(scenes, frame.sceneIndex) * MsPerSecond
           /\ frame.sceneElapsedMs >= 0
           /\ frame.sceneElapsedMs
                < scenes[frame.sceneIndex + 1] * MsPerSecond
           /\ surface = [sceneIndex |-> frame.sceneIndex,
                         sceneElapsedMs |-> frame.sceneElapsedMs]
      /\ (frame.drew /\ scenes = SCENES /\ frame.elapsedMs = 6000) =>
           (frame.sceneIndex = 1 /\ frame.sceneElapsedMs = 0)
      /\ (frame.drew /\ scenes = SCENES /\ frame.elapsedMs = 29999) =>
           (frame.sceneIndex = 4 /\ frame.sceneElapsedMs = 5999)

C4_Witness ==
  /\ scenes = SCENES
  /\ frame.drew
  /\ frame.elapsedMs = 6000
  /\ frame.sceneIndex = 1

\* C5: a drawFrame call with elapsed >= duration * 1000 invokes onComplete
\* (which stops the recorder and emits 'complete'), resolves no scene and
\* leaves the surface untouched.
C5_CompletionAtOrAfterTotal ==
  (frame.called /\ frame.elapsedMs >= duration * MsPerSecond) =>
    /\ frame.complete
    /\ ~frame.drew
    /\ frame.sceneIndex = -1
    /\ surface = Blank
    /\ sessions[frame.s].completeTicks = 1
    /\ sessions[frame.s].stopCalls = 1
    /\ sessions[frame.s].lastStatus = "complete"

C5_Witness ==
  /\ scenes = SCENES
  /\ duration = VIDEO_DURATION_SECONDS
  /\ frame.called
  /\ frame.elapsedMs = VIDEO_DURATION_SECONDS * MsPerSecond
  /\ frame.complete

\* C6: for any non-empty scene list and any configured duration, a frame
\* reports completion exactly when elapsed has reached the sum of the scene
\* durations.
C6_CompletionAtSumOfDurations ==
  (frame.called /\ scenes # <<>>) =>
    (frame.complete <=>
       frame.elapsedMs >= SumDurations(scenes) * MsPerSecond)

\* C7: within a session every emitted progress value lies in [0,1], the
\* first is 0, each is at least the one before it (the value drawFrame
\* emits and the 1 a completing tick emits after it), and a session that
\* signalled completion last emitted 1.
C7_ProgressMonotoneInUnitRange ==
  [][\A s \in Sessions :
       LET a == sessions[s].lastProgress
           b == sessions'[s].lastProgress
           p == frame'.progress
       IN  /\ b # RatNone => (RatLeq(RatZero, b) /\ RatLeq(b, RatOne))
           /\ (a = RatNone /\ b # RatNone) => b = RatZero
           /\ a # RatNone => (b # RatNone /\ RatLeq(a, b))
           /\ (frame' # frame /\ frame'.s = s) =>
                /\ RatLeq(RatZero, p) /\ RatLeq(p, RatOne)
                /\ RatLeq(a, p) /\ RatLeq(p, b)
           /\ sessions'[s].completeTicks >= 1 => RatEq(b, RatOne)
    ]_vars

C7_Witness ==
  \E s \in Sessions :
    /\ sessions[s].completeTicks >= 1
    /\ frame.s = s
    /\ frame.elapsedMs > duration * MsPerSecond
    /\ RatEq(sessions[s].lastProgress, RatOne)

\* C8: every rejected renderVideo also invoked onError, and onError is
\* only invoked for a renderVideo that rejects.
C8_EveryFailureOnBothChannels ==
  \A s \in Sessions :
    sessions[s].pc = "rejected" <=> sessions[s].onErrorCount >= 1

\* C9: a cancelAnimation right after a cancelAnimation changes nothing,
\* and however often the completion callback runs, stop() is requested at
\* most once per session and never on a recorder that is not recording.
C9_StopAndCancelIdempotent ==
  /\ LET c1 == CancelAnimation(animationRef, rafPending)
         c2 == CancelAnimation(c1.animationRef, c1.rafPending)
     IN  c2 = c1 /\ c1.rafPending = {}
  /\ \A s \in Sessions :
       /\ sessions[s].stopCalls <= 1
       /\ ~sessions[s].badStop

C9_Witness ==
  /\ ~canvasRef
  /\ animationRef = 0
  /\ \E s, t \in Sessions :
       /\ sessions[s].completeTicks = 2
       /\ sessions[s].stopCalls = 1
       /\ ErroredByRecorder(t)

\* C10: once the component is torn down no step draws on the surface, no
\* recorder is recording or appends a segment, and no track is live.
C10_NoSideEffectsAfterTeardown ==
  [][~canvasRef' =>
       /\ surface' = surface
       /\ \A s \in Sessions :
            /\ ~Recording(s)'
            /\ sessions'[s].tracks # "live"
            /\ sessions'[s].chunks = sessions[s].chunks
    ]_vars

\* C11: with an empty scene list every renderVideo is rejected at its
\* start: none gets as far as loading assets or recording, no asset is
\* loaded, no frame callback is requested and drawFrame is never called.
C11_EmptySceneListRejectedAtStart ==
  scenes = <<>> =>
    /\ \A s \in Sessions :
         /\ sessions[s].pc \in {"new", "rejected"}
         /\ sessions[s].rec = "none"
         /\ sessions[s].lastStatus \in {"none", "error"}
    /\ ~imageCacheRef
    /\ rafPending = {}
    /\ ~frame.called

FailedOnImage(s) == sessions[s].errMsg = "image"

\* C12: a renderVideo whose image load fails is rejected with the error of
\* the failing image and last status 'error'; it never has a stream, a
\* recorder, a frame request or a drawn frame; the failure itself leaves
\* the cache, the frame requests and the surface as they were (the cache
\* unpopulated when no other render ran), and nothing happens for that
\* invocation afterwards.
C12_ImageFailureAbortsSession ==
  [][\A s \in Sessions :
       FailedOnImage(s)' =>
         /\ sessions'[s].pc = "rejected"
         /\ sessions'[s].errImage \in 1..Len(scenes)
         /\ sessions'[s].lastStatus = "error"
         /\ sessions'[s].onErrorCount = 1
         /\ sessions'[s].rec = "none"
         /\ sessions'[s].tracks = "none"
         /\ sessions'[s].chunks = <<>>
         /\ sessions'[s].result = <<>>
         /\ sessions'[s].lastProgress = RatNone
         /\ sessions'[s].completeTicks = 0
         /\ \A r \in rafPending' : r.s # s
         /\ frame'.s # s
         /\ ~FailedOnImage(s) =>
              /\ sessions[s].pc = "loading"
              /\ status' = "error"
              /\ imageCacheRef' = imageCacheRef
              /\ rafPending' = rafPending
              /\ animationRef' = animationRef
              /\ surface' = surface
              /\ frame' = frame
              /\ (\A t \in Sessions \ {s} : sessions[t].pc = "new")
                   => ~imageCacheRef'
         /\ FailedOnImage(s) => sessions'[s] = sessions[s]
    ]_vars

C12_Witness ==
  \E s, t \in Sessions :
    /\ FailedOnImage(s)
    /\ sessions[s].errImage = 1
    /\ s < t
    /\ sessions[t].pc = "recording"
    /\ imageCacheRef

Loading(s) == sessions[s].pc = "loading"

\* C13: while no load has failed at most one renderVideo resolves the
\* images (is loading assets); a renderVideo that starts with the cache
\* populated does not load and does not emit 'loading-assets'; and one that
\* goes straight to recording found the cache populated.
C13_ImagesResolvedOnce ==
  [][/\ (\A s \in Sessions : ~FailedOnImage(s)') =>
           Cardinality({s \in Sessions : Loading(s)'}) <= 1
     /\ \A s \in Sessions :
          (sessions[s].pc = "new" /\ sessions'[s].pc # "new") =>
            /\ imageCacheRef =>
                 /\ ~Loading(s)'
                 /\ sessions'[s].lastStatus # "loading-assets"
                 /\ status' # "loading-assets"
                 /\ imageCacheRef'
            /\ sessions'[s].pc = "recording" => imageCacheRef
    ]_vars

\* a status notification is emitted for invocation s by this step
EmitsStatus(s) ==
  \/ sessions'[s].lastStatus # sessions[s].lastStatus
  \/ sessions'[s].completeTicks # sessions[s].completeTicks
  \/ sessions'[s].errStatusCount # sessions[s].errStatusCount

\* C14: every emitted status follows the last one along
\* idle -> loading-assets -> rendering -> complete, or starts a new render,
\* or is 'error' after a non-idle status: 'rendering' is emitted only with
\* the images decoded, and 'complete' only for an invocation whose last
\* status is 'rendering' while 'rendering' is the last status emitted.
C14_StatusTransitions ==
  [][\A s \in Sessions :
       EmitsStatus(s) =>
         /\ status' = sessions'[s].lastStatus
         /\ status' \in {"loading-assets", "rendering", "complete", "error"}
         /\ status' = "loading-assets" => sessions[s].pc = "new"
         /\ status' = "rendering" =>
              /\ sessions[s].lastStatus \in {"none", "loading-assets"}
              /\ imageCacheRef'
         /\ status' = "complete" =>
              /\ status = "rendering"
              /\ sessions[s].lastStatus = "rendering"
         /\ status' = "error" => status # "idle"
    ]_vars

Resolved(s) == sessions[s].pc = "resolved"

\* C15: the segments an invocation has accumulated are at all times the
\* non-empty segments its recorder delivered, in arrival order, and the
\* artifact it resolves with is exactly that sequence, without empty
\* segments, tagged with the mime type buildMimeType chose at its start.
C15_ArtifactIsDeliveredSegments ==
  \A s \in Sessions :
    /\ sessions[s].chunks = sessions[s].delivered
    /\ Resolved(s) =>
         /\ sessions[s].result = sessions[s].delivered
         /\ \A i \in 1..Len(sessions[s].result) : sessions[s].result[i] > 0
         /\ sessions[s].resultMime = sessions[s].mime
         /\ sessions[s].resultMime = buildMimeType(support, codecs)
    /\ ~Resolved(s) =>
         (sessions[s].result = <<>> /\ sessions[s].resultMime = "none")

C15_Witness ==
  \E s \in Sessions :
    /\ Resolved(s)
    /\ sessions[s].result = <<2, 1>>
    /\ sessions[s].resultMime = "video/webm;codecs=vp8"

\* the completion callback runs for invocation s in this step
CompletionFires(s) ==
  sessions'[s].completeTicks # sessions[s].completeTicks

\* the stop-finalize sequence of invocation s (onstop: track release, blob
\* assembly) runs in this step
FinalizeRuns(s) ==
  \/ sessions'[s].trackStops # sessions[s].trackStops
  \/ Resolved(s)' /\ ~Resolved(s)

C17_SurfaceWrittenOnlyByDrawFrame ==
  [][((\E s \in Sessions : InFlight(s)) /\ surface' # surface) =>
       /\ rafPending' # rafPending
       /\ frame'.drew
       /\ surface' = [sceneIndex |-> frame'.sceneIndex,
                      sceneElapsedMs |-> frame'.sceneElapsedMs]
    ]_vars

\* C18: the step that handles a recorder error leaves no frame request of
\* the invocation pending, and from then on no frame callback of the
\* invocation runs: none is pending, drawFrame is not called for it, and
\* its progress, its completion count and its last status 'error' stay.
C18_NoFrameAfterEncoderError ==
  [][\A s \in Sessions :
       /\ (ErroredByRecorder(s)' /\ ~ErroredByRecorder(s)) =>
            /\ animationRef' = 0
            /\ \A r \in rafPending' : r.s # s
            /\ frame' = frame
            /\ surface' = surface
       /\ ErroredByRecorder(s) =>
            /\ \A r \in rafPending : r.s # s
            /\ \A r \in rafPending' : r.s # s
            /\ frame' # frame => frame'.s # s
            /\ sessions'[s].lastProgress = sessions[s].lastProgress
            /\ sessions'[s].completeTicks = sessions[s].completeTicks
            /\ sessions'[s].lastStatus = "error"
    ]_vars

C18_Witness ==
  \E s \in Sessions :
    /\ ErroredByRecorder(s)
    /\ canvasRef
    /\ frame.s = s
    /\ frame.drew
    /\ rafPending = {}
    /\ now > startTimeRef + frame.elapsedMs

\* C19: while 'error' is the last status emitted, no step emits 'complete'
\* and no step emits a progress value (no drawFrame call, no invocation's
\* last progress changes) unless the step starts rendering.
C19_FailureIsTerminal ==
  [][status = "error" =>
       /\ status' # "complete"
       /\ status' # "rendering" =>
            /\ frame' = frame
            /\ \A s \in Sessions :
                 /\ sessions'[s].lastProgress = sessions[s].lastProgress
                 /\ sessions'[s].completeTicks = sessions[s].completeTicks
    ]_vars

\* the non-empty pieces of a sequence of pieces, in order
RECURSIVE NonEmpty(_)
NonEmpty(pieces) ==
  IF pieces = <<>> THEN <<>>
  ELSE IF Head(pieces) = <<>> THEN NonEmpty(Tail(pieces))
  ELSE <<Head(pieces)>> \o NonEmpty(Tail(pieces))

\* the words of the lines, line after line
RECURSIVE WordsOfLines(_)
WordsOfLines(ls) ==
  IF ls = <<>> THEN <<>>
  ELSE NonEmpty(split(Head(ls))) \o WordsOfLines(Tail(ls))

HasSpace(str) == \E i \in 1..Len(str) : str[i] = " "

\* C20: the lines wrapText fills hold, read line after line, exactly the
\* words of the text in their order (no word is split, dropped or moved and
\* the last line is filled), and every line either measures at most
\* maxWidth or is one word that alone measures more.
C20_WrapTextKeepsWordsAndWidth ==
  frame.drew =>
    /\ frame.lines = wrapText(text, maxWidth)
    /\ frame.lines # <<>>
    /\ WordsOfLines(frame.lines) = NonEmpty(split(text))
    /\ \A i \in 1..Len(frame.lines) :
         LET line == frame.lines[i]
         IN  /\ line = trim(line)
             /\ \/ measureText(line) <= maxWidth
                \/ (~HasSpace(line) /\ measureText(line) > maxWidth)

C20_Witness ==
  /\ frame.drew
  /\ Len(frame.lines) >= 2
  /\ \E i \in 1..Len(frame.lines) : measureText(frame.lines[i]) > maxWidth
  /\ \E i \in 1..Len(frame.lines) :
       frame.lines[i] # <<>> /\ measureText(frame.lines[i]) <= maxWidth

\* C21: for a drawn frame of a scene of duration d > 0 with fade window
\* w = min(0.75 s, d/3), the text opacity min(fadeIn, fadeOut) lies in
\* [0,1], is 0 at scene-local time 0 and at scene-local time d, and is 1 at
\* every scene-local time in [w, d - w].
C21_TextOpacityFadesInAndOut ==
  frame.drew =>
    LET d == scenes[frame.sceneIndex + 1]
        t == Seconds(frame.sceneElapsedMs)
        w == fadeWindow(d)
        o == frame.textOpacity
    IN  /\ o = textOpacity(d, frame.sceneElapsedMs)
        /\ RatLeq(RatZero, o) /\ RatLeq(o, RatOne)
        /\ frame.sceneElapsedMs = 0 => RatEq(o, RatZero)
        /\ frame.sceneElapsedMs = d * MsPerSecond => RatEq(o, RatZero)
        /\ (RatLeq(w, t) /\ RatLeq(t, RatSub(Rat(d, 1), w))) =>
             RatEq(o, RatOne)

C21_Witness ==
  /\ frame.drew
  /\ scenes[frame.sceneIndex + 1] = 1
  /\ frame.sceneElapsedMs = MsPerSecond
  /\ RatEq(frame.textOpacity, RatZero)

\* the failures renderVideo handles inside its try block
FailedOnContext(s) == sessions[s].errMsg = "context"

\* C22: a render that failed on an image load, on an unavailable context
\* or on an encoder error has invoked onError exactly once and emitted
\* status 'error' exactly once.
C22_ErrorNotifiedExactlyOnce ==
  \A s \in Sessions :
    (FailedOnImage(s) \/ FailedOnContext(s) \/ ErroredByRecorder(s)) =>
      /\ sessions[s].onErrorCount = 1
      /\ sessions[s].errStatusCount = 1

\* the stop event of invocation s is dispatched in this step
StopEventDispatched(s) == sessions[s].stopEvt /\ ~sessions'[s].stopEvt

\* C23: the promise of a render resolves only in the step that dispatches
\* its recorder's stop event, and by then 'complete' has already been
\* emitted for that session and a stop has been requested; when it resolves
\* the tracks of its capture stream have been released and the artifact is
\* the segments pushed so far.
C23_ResolvesOnlyOnStopAfterComplete ==
  [][\A s \in Sessions :
       (Resolved(s)' /\ ~Resolved(s)) =>
         /\ StopEventDispatched(s)
         /\ sessions[s].pc = "recording"
         /\ sessions[s].completeTicks >= 1
         /\ sessions[s].lastStatus = "complete"
         /\ sessions[s].stopCalls >= 1
         /\ sessions[s].rec = "inactive"
         /\ sessions'[s].tracks = "ended"
         /\ sessions'[s].trackStops >= 1
         /\ sessions'[s].result = sessions[s].chunks
         /\ status' = status
    ]_vars

C23_Witness ==
  \E s \in Sessions :
    /\ Resolved(s)
    /\ ~sessions[s].stopEvt
    /\ sessions[s].tracks = "ended"
    /\ sessions[s].lastStatus = "complete"
    /\ sessions[s].errMsg = "none"
    /\ status = "complete"

Invoked(s) == sessions[s].pc # "new"

\* C24: with a non-empty scene list, images that all decode, no encoder
\* error and no teardown, under fair delivery of frame callbacks and
\* recorder events and an advancing clock, every invoked render eventually
\* has emitted 'complete', requested the recorder to stop and resolved its
\* promise with an artifact.
C24_EveryRenderCompletes ==
  \A s \in Sessions :
    Invoked(s) ~>
      /\ sessions[s].completeTicks >= 1
      /\ sessions[s].stopCalls >= 1
      /\ Resolved(s)

====
